---- MODULE Spec2Model ----
(***************************************************************************)
(* Model of the settings-sync backend in src/src/index.ts: the onRequest   *)
(* authorization hook, the four /settings handlers and the /callback       *)
(* OAuth exchange, running as concurrent requests against one shared       *)
(* Redis store.  Every Redis command is one atomic step; the steps of      *)
(* different requests interleave freely (several service instances may     *)
(* share the store).  Strings and buffers are sequences of byte codes.     *)
(***************************************************************************)
EXTENDS Integers, Sequences, FiniteSets, Bags, TLC

VARIABLES store, inflight, started, clock, ev, first, hist, pairs

vars == <<store, inflight, started, clock, ev, first, hist, pairs>>

----------------------------------------------------------------------------
(* Bounds of the model *)

\* total number of requests the service receives in one behaviour
MaxReqs == 3
\* largest value Date.now() reaches
MaxClock == 2
\* longest PUT body a client sends
MaxBodyLen == 2

----------------------------------------------------------------------------
(* Values *)

\* JavaScript null / undefined
Null == <<-1>>

Colon == 58

\* process.env.SIZE_LIMIT
SIZE_LIMIT == 1

\* process.env.PEPPER_SECRETS and process.env.PEPPER_SETTINGS
PEPPER_SECRETS == <<80, 49>>
PEPPER_SETTINGS == <<80, 50>>

\* ids the provider's /users/@me may report ("1", "2")
Ids == {<<49>>, <<50>>}

\* results of crypto.randomBytes(48).toString("hex") (hex digits "a", "b")
Secrets == {<<97>>, <<98>>}

\* the ?code= query parameter: absent, empty, or some code
Codes == {Null, <<>>, <<99>>}

\* the bytes Buffer.from(authToken, "base64") gives for the authorization
\* header (Null: no header, or an empty one): "1:a", "2:b", ..., an empty
\* secret or identity, one part, three parts, and bytes with the high bit set
Headers ==
    { Null, <<>>, <<49>>, <<49, Colon>>, <<Colon, 97>>,
      <<49, Colon, 97>>, <<49, Colon, 98>>, <<50, Colon, 97>>, <<50, Colon, 98>>,
      <<49, Colon, 225>>, <<177, Colon, 97>>, <<49, Colon, 97, Colon>> }

ContentTypes == {"application/octet-stream", "application/json"}

Methods == {"HEAD", "GET", "PUT", "DELETE"}

RECURSIVE Fill(_)
Fill(n) == IF n = 0 THEN <<>> ELSE Append(Fill(n - 1), 7)

\* request bodies: one per length 0..MaxBodyLen
Bodies == {Fill(n) : n \in 0..MaxBodyLen}

----------------------------------------------------------------------------
(* Pure helpers *)

\* crypto.createHash("sha1").update(data).digest("hex"): an injective digest
hash(data) == <<"sha1", data>>

SecretsKey(userId) == <<"secrets:", hash(PEPPER_SECRETS \o userId)>>

\* variant of SettingsKey: the settings key built with the other prefix
SettingsKeyWrongPrefix(userId) == <<"secrets:", hash(PEPPER_SETTINGS \o userId)>>

SettingsKey(userId) == <<"settings:", hash(PEPPER_SETTINGS \o userId)>>

\* Buffer.toString("ascii"): the highest bit of every byte is unset
RECURSIVE ToAscii(_)
ToAscii(bytes) ==
    IF bytes = <<>> THEN <<>>
    ELSE <<Head(bytes) % 128>> \o ToAscii(Tail(bytes))

\* String.prototype.split(":"): always at least one part
RECURSIVE Split(_)
Split(s) ==
    IF \A i \in 1..Len(s) : s[i] # Colon THEN <<s>>
    ELSE LET i == CHOOSE j \in 1..Len(s) :
                     s[j] = Colon /\ \A k \in 1..(j - 1) : s[k] # Colon
         IN <<SubSeq(s, 1, i - 1)>> \o Split(SubSeq(s, i + 1, Len(s)))

\* String(n) for n >= 0, as Redis stores a number
RECURSIVE NumStr(_)
NumStr(n) ==
    IF n < 10 THEN <<48 + n>>
    ELSE NumStr(n \div 10) \o <<48 + (n % 10)>>

\* !x for a string or null
NotStr(x) == x = Null \/ x = <<>>

\* !x for a Buffer or null (an empty Buffer is truthy)
NotBuf(x) == x = Null

----------------------------------------------------------------------------
(* Redis commands on the store, a function from keys to values *)

RedisGet(s, k) == IF k \in DOMAIN s THEN s[k] ELSE Null

RedisSet(s, k, v) == (k :> v) @@ s

RedisHGet(s, k, f) ==
    IF k \in DOMAIN s /\ f \in DOMAIN s[k] THEN s[k][f] ELSE Null

RedisHMSet(s, k, flds) ==
    LET old == IF k \in DOMAIN s THEN s[k] ELSE <<>>
    IN (k :> (flds @@ old)) @@ s

RedisDel(s, k) == [x \in (DOMAIN s) \ {k} |-> s[x]]

----------------------------------------------------------------------------
(* Requests in flight and the last step taken *)

\* the last change made to one user's settings record: op is "put" (value v,
\* time t, as the PUT answered), "del", or "none" before any change
NoHist == [op |-> "none", v |-> Null, t |-> 0]

\* a request suspended at an await: pc names the Redis command or the
\* provider call it waits for.  seen, authed and trace are history fields:
\* the state of hist when GET read the value, whether the request's header
\* carried valid credentials when the hook ran, and the calls the /callback
\* handler has issued so far, in order
Q0 == [pc |-> "new", userId |-> Null, val |-> Null, body |-> Null,
       now |-> 0, seen |-> NoHist, authed |-> FALSE, trace |-> <<>>]

\* no command on the store
NoAcc == <<"none", <<"", <<>>>>>>

\* what the last step did: the code that ran (by: the hook, a /settings
\* handler or the /callback handler), the command it ran on the store (acc)
\* and the reply it produced, if any (status 0: no reply yet; sent: send()
\* was called or a payload was returned).  For /callback: the await that
\* resumed (at), the code of the query, the provider's res.ok, and the
\* calls the request has issued
E0 == [kind |-> "none", by |-> "", method |-> "", status |-> 0,
       sent |-> FALSE, error |-> "", acc |-> NoAcc, userId |-> Null,
       ct |-> "", body |-> Null, etag |-> Null, written |-> 0,
       secret |-> Null, old |-> Null, prev |-> NoHist, seen |-> NoHist,
       authed |-> FALSE, at |-> "", code |-> Null, ok |-> TRUE,
       trace |-> <<>>]

\* the handler a settings request enters once the hook has passed
HandlerPc(method) ==
    CASE method = "HEAD" -> "head"
      [] method = "GET" -> "getv"
      [] method = "PUT" -> "put"
      [] method = "DELETE" -> "del"

HandlerPcs == {"head", "getv", "getw", "put", "putset", "del"}

Retire(q) == inflight (-) SetToBag({q})

Become(q, q2) == (inflight (-) SetToBag({q})) (+) SetToBag({q2})

Waiting(p) == {q \in BagToSet(inflight) : q.pc = p}

\* the header carries identity ":" secret, and the secret is the one on
\* record for that identity
ValidCredential(hdr, s) ==
    /\ hdr # Null
    /\ LET d == ToAscii(hdr)
       IN \E i \in 1..Len(d) :
            /\ d[i] = Colon
            /\ LET k == SecretsKey(SubSeq(d, 1, i - 1))
               IN k \in DOMAIN s /\ s[k] = SubSeq(d, i + 1, Len(d))

----------------------------------------------------------------------------
(* The onRequest hook, lines 60-89 *)

\* variant of HookApplies: a path no route has, so the hook never acts
HookAppliesTypo(routerPath) == routerPath = "/settings/"

\* line 61: the hook acts on /settings only
HookApplies(routerPath) == routerPath = "/settings"

\* variant of SecretMismatch: storedSecret && storedSecret !== secret
SecretMismatchTruthy(storedSecret, secret) ==
    storedSecret # Null /\ storedSecret # secret

\* line 84: storedSecret !== secret
SecretMismatch(storedSecret, secret) == storedSecret # secret

\* the reply the hook sends (status 0: none), the userId it attaches to the
\* request and the command it ran
Hook(routerPath, authToken, s) ==
    IF ~HookApplies(routerPath)
    THEN [status |-> 0, error |-> "", userId |-> Null, acc |-> NoAcc]
    ELSE IF authToken = Null
    THEN [status |-> 401, error |-> "Missing authorization", userId |-> Null,
          acc |-> NoAcc]
    ELSE LET auth == Split(ToAscii(authToken))
         IN IF Len(auth) # 2
            THEN [status |-> 401, error |-> "Invalid authorization",
                  userId |-> Null, acc |-> NoAcc]
            ELSE LET userId == auth[1]
                     secret == auth[2]
                     key == SecretsKey(userId)
                     storedSecret == RedisGet(s, key)
                 IN IF SecretMismatch(storedSecret, secret)
                    THEN [status |-> 401, error |-> "Invalid authorization",
                          userId |-> Null, acc |-> <<"get", key>>]
                    ELSE [status |-> 0, error |-> "", userId |-> userId,
                          acc |-> <<"get", key>>]

\* the store outlives the service: it starts empty, or holding the secret
\* an earlier exchange issued to the identity "1"
Init ==
    /\ \E earlier \in BOOLEAN :
         /\ store = IF earlier THEN (SecretsKey(<<49>>) :> <<97>>) ELSE <<>>
         /\ first = [id \in Ids |->
                       IF earlier /\ id = <<49>> THEN <<97>> ELSE Null]
    /\ inflight = EmptyBag
    /\ started = 0
    /\ clock = 1
    /\ ev = E0
    /\ hist = [id \in Ids |-> NoHist]
    /\ pairs = {}

\* a /settings request arrives: the hook runs, and unless it replied the
\* request goes on to its handler
SettingsRequest ==
    /\ started < MaxReqs
    /\ \E authToken \in Headers :
         LET h == Hook("/settings", authToken, store)
             ok == ValidCredential(authToken, store)
         IN IF h.status # 0
            THEN /\ ev' = [E0 EXCEPT !.kind = "hook", !.by = "hook",
                                     !.status = h.status, !.sent = TRUE,
                                     !.error = h.error, !.acc = h.acc,
                                     !.userId = h.userId, !.authed = ok]
                 /\ inflight' = inflight
            ELSE \E method \in Methods :
                 /\ ev' = [E0 EXCEPT !.kind = "hook", !.by = "hook",
                                     !.method = method, !.acc = h.acc,
                                     !.userId = h.userId, !.authed = ok]
                 /\ inflight' = inflight (+)
                        SetToBag({[Q0 EXCEPT !.pc = HandlerPc(method),
                                             !.userId = h.userId,
                                             !.authed = ok]})
    /\ started' = started + 1
    /\ UNCHANGED <<store, clock, first, hist, pairs>>

----------------------------------------------------------------------------
(* The /settings handlers, lines 91-140 *)

\* lines 95-99: 404 without a written field, else the ETag header
HeadReply(written) ==
    IF NotStr(written) THEN [status |-> 404, etag |-> Null]
    ELSE [status |-> 200, etag |-> written]

\* HEAD /settings: one hget of the written field
HeadSettings ==
    \E q \in Waiting("head") :
      LET key == SettingsKey(q.userId)
          written == RedisHGet(store, key, "written")
          r == HeadReply(written)
      IN /\ ev' = [E0 EXCEPT !.kind = "head", !.by = "settings",
                             !.method = "HEAD", !.status = r.status,
                             !.etag = r.etag, !.acc = <<"hget", key>>,
                             !.userId = q.userId, !.authed = q.authed]
         /\ inflight' = Retire(q)
         /\ UNCHANGED <<store, started, clock, first, hist, pairs>>

\* GET /settings, first command of the Promise.all: hgetBuffer of value
GetValue ==
    \E q \in Waiting("getv") :
      LET key == SettingsKey(q.userId)
          settings == RedisHGet(store, key, "value")
      IN /\ ev' = [E0 EXCEPT !.kind = "step", !.by = "settings",
                             !.method = "GET", !.acc = <<"hget", key>>,
                             !.userId = q.userId, !.authed = q.authed]
         /\ inflight' = Become(q, [q EXCEPT !.pc = "getw", !.val = settings,
                                            !.seen = hist[q.userId]])
         /\ UNCHANGED <<store, started, clock, first, hist, pairs>>

\* lines 109-114: 404 without a value, else the value with the ETag header
GetReply(settings, written) ==
    IF NotBuf(settings)
    THEN [status |-> 404, error |-> "No settings currently synchronized",
          etag |-> Null, body |-> Null]
    ELSE [status |-> 200, error |-> "", etag |-> written, body |-> settings]

\* GET /settings, second command: hget of written, then the reply
GetWritten ==
    \E q \in Waiting("getw") :
      LET key == SettingsKey(q.userId)
          written == RedisHGet(store, key, "written")
          r == GetReply(q.val, written)
      IN /\ ev' = [E0 EXCEPT !.kind = "get", !.by = "settings",
                             !.method = "GET", !.status = r.status,
                             !.sent = TRUE, !.error = r.error,
                             !.etag = r.etag, !.body = r.body,
                             !.acc = <<"hget", key>>, !.userId = q.userId,
                             !.seen = q.seen, !.authed = q.authed]
         /\ inflight' = Retire(q)
         /\ UNCHANGED <<store, started, clock, first, hist, pairs>>

\* variant of PutCheck: the size is checked before the content type
PutCheckSizeFirst(contentType, body) ==
    IF Len(body) > SIZE_LIMIT THEN 413
    ELSE IF contentType # "application/octet-stream" THEN 415
    ELSE 0

\* variant of PutCheck: byteLength >= SIZE_LIMIT
PutCheckOffByOne(contentType, body) ==
    IF contentType # "application/octet-stream" THEN 415
    ELSE IF Len(body) >= SIZE_LIMIT THEN 413
    ELSE 0

\* lines 118-124: the status PUT's checks of content type and size give
\* (0: both pass)
PutCheck(contentType, body) ==
    IF contentType # "application/octet-stream" THEN 415
    ELSE IF Len(body) > SIZE_LIMIT THEN 413
    ELSE 0

PutError(st) ==
    CASE st = 415 -> "Content type must be application/octet-stream"
      [] st = 413 -> "Settings are too large"
      [] OTHER -> ""

\* the values Date.now() may give: time does not run backwards, and may
\* not have advanced since the last time it was read
DateNow == {t \in clock..(clock + 1) : t <= MaxClock}

\* PUT /settings up to Date.now(): the checks, then the time is taken
PutSettings ==
    \E q \in Waiting("put") :
      \E contentType \in ContentTypes, body \in Bodies :
        LET st == PutCheck(contentType, body)
        IN IF st # 0
           THEN /\ ev' = [E0 EXCEPT !.kind = "put", !.by = "settings",
                                    !.method = "PUT", !.status = st,
                                    !.sent = TRUE, !.error = PutError(st),
                                    !.ct = contentType, !.body = body,
                                    !.userId = q.userId, !.authed = q.authed]
                /\ inflight' = Retire(q)
                /\ UNCHANGED <<store, started, clock, first, hist, pairs>>
           ELSE \E now \in DateNow :
                /\ ev' = [E0 EXCEPT !.kind = "step", !.by = "settings",
                                    !.method = "PUT", !.ct = contentType,
                                    !.body = body, !.userId = q.userId,
                                    !.authed = q.authed]
                /\ inflight' = Become(q, [q EXCEPT !.pc = "putset",
                                                   !.body = body,
                                                   !.now = now])
                /\ clock' = now
                /\ UNCHANGED <<store, started, first, hist, pairs>>

\* variant of PutRecord: the written field is left as it was
PutRecordValueOnly(body, now) == [value |-> body]

\* variant of PutRecord: written is not the time the reply carries
PutRecordLaterTime(body, now) ==
    [value |-> body, written |-> NumStr(now + 1)]

\* lines 128-131: the fields hmset writes
PutRecord(body, now) == [value |-> body, written |-> NumStr(now)]

\* PUT /settings: the hmset, then the reply {written: now}
PutWrite ==
    \E q \in Waiting("putset") :
      LET key == SettingsKey(q.userId)
      IN /\ store' = RedisHMSet(store, key, PutRecord(q.body, q.now))
         /\ ev' = [E0 EXCEPT !.kind = "put", !.by = "settings",
                             !.method = "PUT", !.status = 200, !.sent = TRUE,
                             !.ct = "application/octet-stream",
                             !.written = q.now, !.body = q.body,
                             !.acc = <<"hmset", key>>, !.userId = q.userId,
                             !.prev = hist[q.userId], !.authed = q.authed]
         /\ hist' = [hist EXCEPT ![q.userId] =
                        [op |-> "put", v |-> q.body, t |-> q.now]]
         /\ pairs' = pairs \cup {<<q.userId, q.body, q.now>>}
         /\ inflight' = Retire(q)
         /\ UNCHANGED <<started, clock, first>>

\* variant of DelCommand: every settings record is removed
DelEveryRecord(s, userId) ==
    [x \in {k \in DOMAIN s : k[1] # "settings:"} |-> s[x]]

\* variant of DelCommand: hdel of the value field only
DelValueOnly(s, userId) ==
    LET key == SettingsKey(userId)
    IN IF key \in DOMAIN s
       THEN (key :> [f \in (DOMAIN s[key]) \ {"value"} |-> s[key][f]]) @@ s
       ELSE s

\* line 137: redis.del of the user's settings key
DelCommand(s, userId) == RedisDel(s, SettingsKey(userId))

\* DELETE /settings: the del, then status 204
DeleteSettings ==
    \E q \in Waiting("del") :
      /\ store' = DelCommand(store, q.userId)
      /\ ev' = [E0 EXCEPT !.kind = "delete", !.by = "settings",
                          !.method = "DELETE", !.status = 204,
                          !.acc = <<"del", SettingsKey(q.userId)>>,
                          !.userId = q.userId, !.prev = hist[q.userId],
                          !.authed = q.authed]
      /\ hist' = [hist EXCEPT ![q.userId] =
                     [op |-> "del", v |-> Null, t |-> 0]]
      /\ inflight' = Retire(q)
      /\ UNCHANGED <<started, clock, first, pairs>>

----------------------------------------------------------------------------
(* GET /callback, lines 153-203 *)

\* variant of CodeMissing: only an absent code is refused
CodeMissingNullOnly(code) == code = Null

\* line 156: !code
CodeMissing(code) == NotStr(code)

\* variant of AfterToken: the token call is made again after a failure
AfterTokenRetry(ok) == IF ok THEN "user" ELSE "token"

\* lines 175-181: where the handler goes once the token endpoint answered
AfterToken(ok) == IF ok THEN "user" ELSE "done"

\* lines 187-195: where the handler goes once the identity endpoint answered
AfterUser(ok) == IF ok THEN "cbget" ELSE "done"

\* the request arrives: the hook lets it through, the code is checked and
\* the token endpoint is called
CallbackRequest ==
    /\ started < MaxReqs
    /\ Hook("/callback", Null, store).status = 0
    /\ \E code \in Codes :
         IF CodeMissing(code)
         THEN /\ ev' = [E0 EXCEPT !.kind = "callback", !.by = "callback",
                                  !.method = "GET", !.status = 400,
                                  !.sent = TRUE, !.error = "Missing code",
                                  !.at = "arrive", !.code = code]
              /\ inflight' = inflight
         ELSE /\ ev' = [E0 EXCEPT !.kind = "step", !.by = "callback",
                                  !.method = "GET", !.at = "arrive",
                                  !.code = code, !.trace = <<"token">>]
              /\ inflight' = inflight (+)
                     SetToBag({[Q0 EXCEPT !.pc = "token",
                                          !.trace = <<"token">>]})
    /\ started' = started + 1
    /\ UNCHANGED <<store, clock, first, hist, pairs>>

\* the provider's token endpoint answers; on success the identity endpoint
\* is called
TokenResponse ==
    \E q \in Waiting("token") :
      \E ok \in BOOLEAN :
        LET nxt == AfterToken(ok)
        IN /\ IF nxt = "done"
              THEN /\ ev' = [E0 EXCEPT !.kind = "callback", !.by = "callback",
                                       !.method = "GET", !.status = 400,
                                       !.sent = TRUE, !.error = "Invalid code",
                                       !.at = "token", !.ok = ok,
                                       !.trace = q.trace]
                   /\ inflight' = Retire(q)
              ELSE /\ ev' = [E0 EXCEPT !.kind = "step", !.by = "callback",
                                       !.method = "GET", !.at = "token",
                                       !.ok = ok,
                                       !.trace = Append(q.trace, nxt)]
                   /\ inflight' = Become(q, [q EXCEPT !.pc = nxt,
                                                !.trace = Append(q.trace, nxt)])
           /\ UNCHANGED <<store, started, clock, first, hist, pairs>>

\* the provider's identity endpoint answers; on success the secret is read
UserResponse ==
    \E q \in Waiting("user") :
      \E ok \in BOOLEAN :
        LET nxt == AfterUser(ok)
        IN /\ IF nxt = "done"
              THEN /\ ev' = [E0 EXCEPT !.kind = "callback", !.by = "callback",
                                       !.method = "GET", !.status = 500,
                                       !.sent = TRUE,
                                       !.error = "Failed to get user",
                                       !.at = "user", !.ok = ok,
                                       !.trace = q.trace]
                   /\ inflight' = Retire(q)
              ELSE \E id \in Ids :
                   /\ ev' = [E0 EXCEPT !.kind = "step", !.by = "callback",
                                       !.method = "GET", !.at = "user",
                                       !.ok = ok,
                                       !.trace = Append(q.trace, nxt)]
                   /\ inflight' = Become(q, [q EXCEPT !.pc = nxt,
                                                !.userId = id,
                                                !.trace = Append(q.trace, nxt)])
           /\ UNCHANGED <<store, started, clock, first, hist, pairs>>

\* history: the first secret an exchange returned for userId
Issue(userId, secret) ==
    IF first[userId] = Null THEN [first EXCEPT ![userId] = secret] ELSE first

\* redis.get of the secret: an existing one is returned at once
CallbackGet ==
    \E q \in Waiting("cbget") :
      LET key == SecretsKey(q.userId)
          secret == RedisGet(store, key)
      IN /\ ev' = IF NotStr(secret)
                  THEN [E0 EXCEPT !.kind = "step", !.by = "callback",
                                  !.method = "GET", !.acc = <<"get", key>>,
                                  !.userId = q.userId, !.at = "cbget",
                                  !.trace = Append(q.trace, "cbset")]
                  ELSE [E0 EXCEPT !.kind = "callback", !.by = "callback",
                                  !.method = "GET", !.status = 200,
                                  !.sent = TRUE, !.secret = secret,
                                  !.acc = <<"get", key>>, !.userId = q.userId,
                                  !.old = secret, !.at = "cbget",
                                  !.trace = q.trace]
         /\ inflight' = IF NotStr(secret)
                        THEN Become(q, [q EXCEPT !.pc = "cbset",
                                          !.trace = Append(q.trace, "cbset")])
                        ELSE Retire(q)
         /\ first' = IF NotStr(secret) THEN first ELSE Issue(q.userId, secret)
         /\ UNCHANGED <<store, started, clock, hist, pairs>>

\* no secret was found: a fresh one is generated, set and returned
CallbackSet ==
    \E q \in Waiting("cbset") :
      \E secret \in Secrets :
        LET key == SecretsKey(q.userId)
        IN /\ store' = RedisSet(store, key, secret)
           /\ ev' = [E0 EXCEPT !.kind = "callback", !.by = "callback",
                               !.method = "GET", !.status = 200,
                               !.sent = TRUE, !.secret = secret,
                               !.acc = <<"set", key>>, !.userId = q.userId,
                               !.old = RedisGet(store, key), !.at = "cbset",
                               !.trace = q.trace]
           /\ first' = Issue(q.userId, secret)
           /\ inflight' = Retire(q)
           /\ UNCHANGED <<started, clock, hist, pairs>>

----------------------------------------------------------------------------

Next ==
    \/ SettingsRequest
    \/ HeadSettings
    \/ GetValue
    \/ GetWritten
    \/ PutSettings
    \/ PutWrite
    \/ DeleteSettings
    \/ CallbackRequest
    \/ TokenResponse
    \/ UserResponse
    \/ CallbackGet
    \/ CallbackSet

Spec == Init /\ [][Next]_vars

----------------------------------------------------------------------------
(* Properties *)

\* a reply of the /callback handler that carries a secret
SecretReply == ev.kind = "callback" /\ ev.status = 200

\* C1: every successful exchange for an identity returns the same secret,
\* the one the first successful exchange for that identity returned,
\* whatever the interleaving of the exchanges' get and set steps.
C1_SameSecretPerIdentity ==
    SecretReply => ev.secret = first[ev.userId]

\* C2: the Identity Store is written at most once per identity: secrets are
\* never removed, so no set finds a secret on record for its identity.
C2_AtMostOneWrite ==
    (ev.by = "callback" /\ ev.acc[1] = "set") => ev.old = Null

C4_GateBeforeEveryOperation ==
    [][ /\ \A q \in BagToSet(inflight') : q.pc \in HandlerPcs => q.authed
        /\ ev'.by = "settings" => ev'.authed
        /\ ev'.acc[2][1] = "settings:" => ev'.authed
        /\ (\E k \in DOMAIN store' :
              k[1] = "settings:" /\ (k \notin DOMAIN store \/ store'[k] # store[k]))
             => ev'.authed
        /\ (\E k \in DOMAIN store : k[1] = "settings:" /\ k \notin DOMAIN store')
             => ev'.authed
        /\ (ev'.kind = "hook" /\ ~ev'.authed) =>
             /\ ev'.status = 401
             /\ ev'.sent
             /\ store' = store
             /\ inflight' = inflight
      ]_vars

C4_Witness ==
    /\ ev.kind = "hook"
    /\ ~ev.authed
    /\ ev.status = 401
    /\ ev.error = "Invalid authorization"
    /\ ev.acc[1] = "get"
    /\ \E k \in DOMAIN store : k[1] = "settings:"

\* the user's settings record is as the last completed PUT left it
LastPut(userId) == hist[userId].op = "put"

\* the user's settings record was removed and not written again
LastDel(userId) == hist[userId].op = "del"

\* no PUT or DELETE of the user completed between the two reads of the GET
\* that just replied
Undisturbed == ev.seen = hist[ev.userId]

\* C5: the value and the ETag of a successful GET were stored together by
\* one PUT of that user, and the ETag is never missing.
C5_GetReadsOneWrite ==
    (ev.kind = "get" /\ ev.status = 200) =>
        \E p \in pairs :
            p[1] = ev.userId /\ p[2] = ev.body /\ NumStr(p[3]) = ev.etag

C7_WrittenStrictlyIncreases ==
    (ev.kind = "put" /\ ev.status = 200 /\ ev.prev.op = "put") =>
        ev.written > ev.prev.t

\* C8: a PUT with the binary content type is answered 200 exactly when its
\* body is at most SIZE_LIMIT bytes long and 413 exactly when it is longer;
\* only bodies within the limit go on to the hmset.
C8_SizeLimit ==
    /\ (ev.kind = "put" /\ ev.ct = "application/octet-stream") =>
          /\ ev.status = 200 <=> Len(ev.body) <= SIZE_LIMIT
          /\ ev.status = 413 <=> Len(ev.body) > SIZE_LIMIT
    /\ (ev.kind = "step" /\ ev.method = "PUT") =>
          /\ ev.ct = "application/octet-stream"
          /\ Len(ev.body) <= SIZE_LIMIT
          /\ \E q \in Waiting("putset") : q.body = ev.body
    /\ \A q \in Waiting("putset") : Len(q.body) <= SIZE_LIMIT

C8_Witness ==
    /\ ev.kind = "put"
    /\ ev.status = 200
    /\ Len(ev.body) = SIZE_LIMIT
    /\ store[SettingsKey(ev.userId)].value = ev.body

C10_NamespacesDisjoint ==
    /\ \A X \in Ids \cup {ev.userId} \cup {q.userId : q \in BagToSet(inflight)} :
          SecretsKey(X) # SettingsKey(X)
    /\ (ev.by \in {"hook", "callback"} /\ ev.acc # NoAcc) =>
          /\ ev.acc[2][1] = "secrets:"
          /\ ev.acc[1] \in {"get", "set"}
    /\ ev.by = "settings" /\ ev.acc # NoAcc =>
          /\ ev.acc[2][1] = "settings:"
          /\ ev.acc[1] \in {"hget", "hmset", "del"}
    /\ \A k \in DOMAIN store : k[1] \in {"secrets:", "settings:"}
    /\ \A X \in Ids :
          /\ SettingsKey(X) \in DOMAIN store =>
                DOMAIN store[SettingsKey(X)] = {"value", "written"}
          /\ SecretsKey(X) \in DOMAIN store => store[SecretsKey(X)] \in Secrets

C10_Witness ==
    /\ ev.by = "settings"
    /\ ev.acc[1] = "hget"
    /\ SecretsKey(ev.userId) \in DOMAIN store
    /\ SettingsKey(ev.userId) \in DOMAIN store

\* C11: an exchange whose code is missing or empty is answered 400 before
\* any provider call; a rejected token call is answered 400 and a failed
\* identity lookup 500; a step that answers 400 or 500 runs no command on
\* the store, leaves the store as it was and returns no secret.
C11_FailedExchangeTouchesNothing ==
    [][ev'.by = "callback" =>
          /\ ev'.at = "arrive" =>
               ((ev'.code \in {Null, <<>>}) <=>
                  (ev'.kind = "callback" /\ ev'.status = 400
                     /\ ev'.trace = <<>>))
          /\ (ev'.at = "token" /\ ~ev'.ok) =>
               (ev'.kind = "callback" /\ ev'.status = 400)
          /\ (ev'.at = "user" /\ ~ev'.ok) =>
               (ev'.kind = "callback" /\ ev'.status = 500)
          /\ (ev'.kind = "callback" /\ ev'.status \in {400, 500}) =>
               /\ store' = store
               /\ first' = first
               /\ ev'.acc = NoAcc
               /\ ev'.secret = Null
               /\ \A i \in 1..Len(ev'.trace) :
                    ev'.trace[i] \notin {"cbget", "cbset"}]_vars

\* the identity lookup failed after the token call, with a secret on record
C11_Witness ==
    /\ ev.by = "callback" /\ ev.status = 500
    /\ ev.trace = <<"token", "user">>
    /\ SecretsKey(<<49>>) \in DOMAIN store

\* C12: a settings record in the store has exactly the value and the written
\* time of one PUT, the last one to write for that identity; there is no
\* record when nothing was put or a DELETE came last.
C12_RecordIsOnePut ==
    \A id \in Ids :
      LET k == <<"settings:", hash(PEPPER_SETTINGS \o id)>>
      IN IF k \in DOMAIN store
         THEN /\ hist[id].op = "put"
              /\ <<id, hist[id].v, hist[id].t>> \in pairs
              /\ store[k] = [value |-> hist[id].v,
                             written |-> NumStr(hist[id].t)]
         ELSE hist[id].op \in {"none", "del"}

\* a PUT overwrites the record of another PUT while a DELETE for the same
\* identity is in flight
C12_Witness ==
    /\ ev.kind = "put" /\ ev.status = 200
    /\ ev.prev.op = "put" /\ ev.prev.v # ev.body
    /\ \E q \in BagToSet(inflight) : q.pc = "del" /\ q.userId = ev.userId

\* C13: the first secret an exchange returned for an identity stays the
\* secret on record, and credentials built from it pass the gate, in every
\* later state.
C13_SecretNeverRotated ==
    \A id \in Ids :
      first[id] # Null =>
        /\ RedisGet(store, SecretsKey(id)) = first[id]
        /\ ValidCredential(id \o <<Colon>> \o first[id], store)

\* C14: a PUT whose content type is not application/octet-stream is answered
\* 415 whatever its size, 413 is answered only to an octet-stream body over
\* the limit, and a step that answers 415 or 413 runs no command and leaves
\* the store and the record's history as they were.
C14_RejectedPutChangesNothing ==
    [][(ev'.by = "settings" /\ ev'.kind = "put") =>
          /\ ev'.ct # "application/octet-stream" => ev'.status = 415
          /\ ev'.status = 413 =>
               (ev'.ct = "application/octet-stream"
                  /\ Len(ev'.body) > SIZE_LIMIT)
          /\ ev'.status \in {415, 413} =>
               (store' = store /\ hist' = hist /\ pairs' = pairs
                  /\ ev'.acc = NoAcc)]_vars

\* an oversized body of the wrong type is refused with 415 while the caller
\* has a record
C14_Witness ==
    /\ ev.kind = "put" /\ ev.status = 415
    /\ Len(ev.body) > SIZE_LIMIT
    /\ SettingsKey(ev.userId) \in DOMAIN store

\* the order of the calls of one exchange
CallOrder == <<"token", "user", "cbget", "cbset">>

IsPrefix(s, t) == Len(s) <= Len(t) /\ s = SubSeq(t, 1, Len(s))

\* C15: the calls an exchange has issued are a prefix of token, identity,
\* get, set, so each is made at most once and in that order; the request
\* waits for the last call it issued; a provider call that fails ends the
\* request with its error reply, and the store is accessed only by a request
\* that has made both provider calls.
C15_StepsInOrderOnce ==
    /\ \A q \in BagToSet(inflight) :
         q.pc \in {"token", "user", "cbget", "cbset"} =>
           /\ q.trace # <<>>
           /\ IsPrefix(q.trace, CallOrder)
           /\ q.trace[Len(q.trace)] = q.pc
    /\ ev.by = "callback" =>
         /\ IsPrefix(ev.trace, CallOrder)
         /\ ~ev.ok => (ev.kind = "callback" /\ ev.status \in {400, 500})
         /\ ev.acc # NoAcc => Len(ev.trace) >= 3

\* an exchange went through all four calls
C15_Witness ==
    /\ ev.by = "callback" /\ ev.at = "cbset"
    /\ ev.trace = CallOrder

\* C16: every step in which a /settings handler finishes sends a response:
\* HEAD 200 with the stored written value as ETag or 404, DELETE 204.
C16_EveryHandlerResponds ==
    (ev.by = "settings" /\ ev.kind \in {"head", "get", "put", "delete"}) =>
        /\ ev.sent
        /\ ev.kind = "head" =>
             \/ ev.status = 200 /\ ev.etag # Null
             \/ ev.status = 404 /\ ev.etag = Null
        /\ ev.kind = "delete" => ev.status = 204

\* the settings record of an identity, Null when there is none
RecordOf(s, id) == RedisGet(s, SettingsKey(id))

\* C17: a step of a /settings handler running for identity A leaves every
\* other identity's settings record, every secret and every key other than
\* A's settings key as they were; a step of HEAD or GET leaves the whole
\* store as it was.
C17_ConfinedToCaller ==
    [][ev'.by = "settings" =>
          /\ \A id \in Ids \ {ev'.userId} :
               RecordOf(store', id) = RecordOf(store, id)
          /\ \A id \in Ids :
               RedisGet(store', SecretsKey(id))
                  = RedisGet(store, SecretsKey(id))
          /\ \A k \in (DOMAIN store) \cup (DOMAIN store') :
               k # <<"settings:", hash(PEPPER_SETTINGS \o ev'.userId)>> =>
                 (k \in DOMAIN store /\ k \in DOMAIN store'
                    /\ store'[k] = store[k])
          /\ ev'.method \in {"HEAD", "GET"} => store' = store]_vars

\* one identity's PUT writes its record while another identity has a record,
\* written by a PUT that ran while this one was in flight (this PUT took its
\* time first)
C17_Witness ==
    /\ ev.by = "settings" /\ ev.kind = "put" /\ ev.status = 200
    /\ \E id \in Ids \ {ev.userId} :
         /\ SettingsKey(id) \in DOMAIN store
         /\ hist[id].op = "put"
         /\ ev.written < hist[id].t

====
